---- MODULE Spec2Model ----
(***************************************************************************)
(* Rust-Config-Guardian: a configuration drift detector.                   *)
(*                                                                         *)
(* The model covers src/main.rs and src/utils.rs: the three sub-commands   *)
(* (snapshot, compare, monitor), the fingerprinting of a directory         *)
(* (take_snapshot), the comparison against snapshot.json                   *)
(* (compare_with_snapshot) and the debounced monitor loop                  *)
(* (monitor_directory).                                                    *)
(*                                                                         *)
(* Paths are file names; every FileHash.path of one run is the same        *)
(* directory argument joined with the file name, so the name identifies    *)
(* the path.  File contents are small integers and Sha256 is modelled as   *)
(* an injective map on them.  Time is counted in whole seconds.            *)
(***************************************************************************)
EXTENDS Integers, Sequences, FiniteSets, TLC

VARIABLES
  files,        \* the user's entries of the target directory: name -> kind
  cwdTarget,    \* TRUE when the target directory is the working directory
  driftLog,     \* content of drift.log in the working directory (0: absent)
  snapshotFile, \* snapshot.json in the working directory
  snapVer,      \* identifies the current content of snapshot.json
  lastOp,       \* the step taken last
  result,       \* outcome of the last main / compare_with_snapshot call
  stderr,       \* error reported to the operator by the last step
  snapshot,     \* compare_with_snapshot: the loaded baseline
  current,      \* compare_with_snapshot: the collection just computed
  drifts,       \* compare_with_snapshot: the drift report
  report,       \* what the last step printed: "none", "no_drift", "drift"
  fpRan,        \* the last step ran take_snapshot's fingerprinting
  dirArg,       \* the last command's DIRECTORY: "valid", "invalid", "none"
  warnings,     \* per-entry warnings the last step printed (lines 112, 129)
  emptyWarned,  \* the last step printed the empty-directory warning
  writer,       \* a snapshot command between its two steps of fs::write
  monPc,        \* monitor_directory: "off", "running", "failed"
  last_check,   \* monitor_directory: Instant of the last comparison
  chan,         \* messages queued on the mpsc channel
  closed,       \* every Sender of the channel is gone
  now,          \* the monotonic clock: seconds since the monitor started
  chanErrs,     \* failed receives (RecvError) seen by the loop
  cmpCount,     \* comparisons the loop has run
  cmpDone,      \* when the loop's last comparison returned (-1: none yet)
  burst         \* observer of one burst of received notifications

vars == <<files, cwdTarget, driftLog, snapshotFile, snapVer, lastOp, result,
          stderr, snapshot, current, drifts, report, fpRan, dirArg, warnings,
          emptyWarned, writer, monPc, last_check, chan, closed, now, chanErrs,
          cmpCount, cmpDone, burst>>

----------------------------------------------------------------------------
(* Bounds and program constants *)

NumContents == 2
MaxLen == 3
MaxVer == 3
MaxTime == 5
MaxQueue == 2
MaxCmpDur == 1
MaxChanErrs == 2
BurstSize == 5
DEBOUNCE_INTERVAL == 2

UserPaths == {"a.txt", "b.txt"}
DRIFT_LOG == "drift.log"
SNAPSHOT_JSON == "snapshot.json"
AllPaths == UserPaths \cup {DRIFT_LOG, SNAPSHOT_JSON}

\* kinds of a directory entry: a readable regular file is its content, a
\* positive number (1..NumContents for the user's files); BADENTRY is an
\* entry for which the iterator of read_dir yields Err
ABSENT == 0
SUBDIR == -1
UNREADABLE == -2
BADENTRY == -3
Contents == 1..NumContents
Kinds == Contents \cup {ABSENT, SUBDIR, UNREADABLE, BADENTRY}

----------------------------------------------------------------------------
(* Drift Comparator: compare_with_snapshot, lines 148-166 *)

FileHash(p, h) == [path |-> p, hash |-> h]

Drift(k, p) == [kind |-> k, path |-> p]

\* snapshot.iter().find(|p| p.path == curr.path): index of the first entry
\* with that path, 0 for None
RECURSIVE FindFrom(_, _, _)
FindFrom(coll, path, i) ==
  IF i > Len(coll) THEN 0
  ELSE IF coll[i].path = path THEN i
  ELSE FindFrom(coll, path, i + 1)

\* looks at the first entry only
FindFirstOnly(coll, path) ==
  IF Len(coll) > 0 /\ coll[1].path = path THEN 1 ELSE 0

Find(coll, path) == FindFrom(coll, path, 1)

\* current.iter().any(|c| c.path == prev.path)
AnyPath(coll, path) == \E i \in 1..Len(coll) : coll[i].path = path

\* never compares the digests
ClassifyCurrentByPath(snap, curr) ==
  IF Find(snap, curr.path) # 0 THEN <<>> ELSE <<Drift("New", curr.path)>>

\* one iteration of the first loop, for curr
ClassifyCurrent(snap, curr) ==
  LET i == Find(snap, curr.path) IN
    IF i # 0
    THEN IF snap[i].hash # curr.hash
         THEN <<Drift("Changed", curr.path)>>
         ELSE <<>>
    ELSE <<Drift("New", curr.path)>>

\* one iteration of the second loop, for prev
ClassifyPrevious(cur, prev) ==
  IF ~AnyPath(cur, prev.path) THEN <<Drift("Deleted", prev.path)>> ELSE <<>>

\* for curr in &current { ... }
RECURSIVE NewOrChanged(_, _, _, _)
NewOrChanged(snap, cur, i, acc) ==
  IF i > Len(cur) THEN acc
  ELSE NewOrChanged(snap, cur, i + 1, acc \o ClassifyCurrent(snap, cur[i]))

\* for prev in &snapshot { ... }
RECURSIVE Deleted(_, _, _, _)
Deleted(snap, cur, i, acc) ==
  IF i > Len(snap) THEN acc
  ELSE Deleted(snap, cur, i + 1, acc \o ClassifyPrevious(cur, snap[i]))

\* runs the second loop before the first
DeletedFirst(snap, cur) ==
  NewOrChanged(snap, cur, 1, Deleted(snap, cur, 1, <<>>))

\* the drifts vector after both loops
Compare(snap, cur) ==
  Deleted(snap, cur, 1, NewOrChanged(snap, cur, 1, <<>>))

----------------------------------------------------------------------------
(* The file system seen by the tool *)

Cmds == {"snapshot", "compare", "monitor"}

\* drift.log after main has created it and logged "started" (line 57) and
\* the sub-command's line (67, 79, 87); nothing more for an invalid directory
LogContent(cmd, valid) ==
  IF ~valid THEN 10
  ELSE CASE cmd = "snapshot" -> 20
         [] cmd = "compare" -> 30
         [] cmd = "monitor" -> 40

\* a log line appended to drift.log (lines 170, 176)
LogAppend(log) == log + 1

\* the content of snapshot.json as an entry of the target directory
SnapContent(ver) == 100 + ver

\* the entry called name in the target directory, when drift.log holds log
KindOf(name, log) ==
  IF name \in UserPaths THEN files[name]
  ELSE IF ~cwdTarget THEN ABSENT
  ELSE IF name = DRIFT_LOG THEN log
  ELSE IF snapshotFile.st = "missing" THEN ABSENT
  ELSE SnapContent(snapVer)

Present(log) == {n \in AllPaths : KindOf(n, log) # ABSENT}

\* fs::read_dir yields the entries in an order the file system chooses.
\* Two orders stand for them: by name, and the reverse of it.
NameOrder == <<"a.txt", "b.txt", DRIFT_LOG, SNAPSHOT_JSON>>

InSet(S, n) == n \in S

ByName(S) == SelectSeq(NameOrder, LAMBDA n : InSet(S, n))

Reverse(q) == [i \in 1..Len(q) |-> q[Len(q) + 1 - i]]

Orders(S) == {ByName(S), Reverse(ByName(S))}

\* the item of the iterator is Ok(e): lines 109-110
Enumerable(kind) == kind # BADENTRY

\* path.is_file()
IsFile(kind) == kind \notin {ABSENT, SUBDIR}

\* fs::read(&path) is Ok
Readable(kind) == kind # UNREADABLE

\* Sha256 of a content, as lower-case hex: injective on contents
Sha256(content) == 1000 + content

\* serde_json::to_string_pretty(&hashes): one object per FileHash, in order
ToJson(hashes) == [i \in 1..Len(hashes) |-> <<hashes[i].path, hashes[i].hash>>]

\* serde_json::from_str::<Vec<FileHash>>(&data) of a well-formed record
FromJson(data) == [i \in 1..Len(data) |-> FileHash(data[i][1], data[i][2])]

----------------------------------------------------------------------------
(* take_snapshot, lines 98-137 *)

\* the body of the for loop for one entry: the hashes it pushes
HashEntry(name, log) ==
  LET kind == KindOf(name, log) IN
    IF Enumerable(kind) /\ IsFile(kind) /\ Readable(kind)
    THEN <<FileHash(name, Sha256(kind))>>
    ELSE <<>>

\* warns about unreadable files only
EntryWarnsOnRead(kind) == kind = UNREADABLE

\* the body of the for loop prints a warning for the entry: lines 112, 129
EntryWarns(kind) ==
  ~Enumerable(kind) \/ (IsFile(kind) /\ ~Readable(kind))

\* the warnings of the whole loop
RECURSIVE WarnAll(_, _, _, _)
WarnAll(order, log, i, acc) ==
  IF i > Len(order) THEN acc
  ELSE WarnAll(order, log, i + 1,
               IF EntryWarns(KindOf(order[i], log)) THEN acc + 1 ELSE acc)

Warnings(order, log) == WarnAll(order, log, 1, 0)

\* lines 101-106: the first read_dir counted no entry at all
EmptyWarning(order) == Len(order) = 0

RECURSIVE HashAll(_, _, _, _)
HashAll(order, log, i, acc) ==
  IF i > Len(order) THEN acc
  ELSE HashAll(order, log, i + 1, acc \o HashEntry(order[i], log))

\* the hashes vector at line 134, for the entries read in this order
Hashes(order, log) == HashAll(order, log, 1, <<>>)

\* outcomes of the file-system calls of take_snapshot: read_dir (line 108)
\* and fs::write (line 135), which creates/truncates and then writes
IoErrors == {"read_dir_err", "create_err", "write_err"}

\* what one call of take_snapshot can do when drift.log holds log: the
\* outcome of its file-system calls and the hashes vector it has built
Takes(log) ==
  {[io |-> e, hashes |-> Hashes(o, log), warnings |-> Warnings(o, log),
    empty |-> EmptyWarning(o)] :
       e \in {"ok", "create_err", "write_err"}, o \in Orders(Present(log))}
    \cup {[io |-> "read_dir_err", hashes |-> <<>>, warnings |-> 0,
           empty |-> FALSE]}

\* Result of take_snapshot
TakeResult(t) == IF t.io = "ok" THEN "ok" ELSE "io_error"

\* snapshot.json after take_snapshot
TakeFile(t) ==
  CASE t.io = "ok" -> [st |-> "ok", data |-> ToJson(t.hashes)]
    [] t.io = "write_err" -> [st |-> "corrupt", data |-> <<>>]
    [] OTHER -> snapshotFile

\* take_snapshot touched snapshot.json
TakeWrites(t) == t.io \in {"ok", "write_err"}

\* every rewrite of snapshot.json inside the target directory changes its
\* content: the new record holds the digest of the old one
TakeVer(t) == IF cwdTarget /\ TakeWrites(t) THEN snapVer + 1 ELSE snapVer

CanWrite(t) == cwdTarget /\ TakeWrites(t) => snapVer < MaxVer

\* the loop of lines 108-132 ran
TakeHashed(t) == t.io # "read_dir_err"

\* what take_snapshot printed
TakeOutput(t) ==
  /\ warnings' = t.warnings
  /\ emptyWarned' = t.empty

NoTakeOutput ==
  /\ warnings' = 0
  /\ emptyWarned' = FALSE

----------------------------------------------------------------------------
(* compare_with_snapshot, lines 139-183 *)

\* lines 140-144: the outcome of loading the baseline
LoadResult ==
  CASE snapshotFile.st = "missing" -> "no_snapshot"
    [] snapshotFile.st = "corrupt" -> "parse_error"
    [] OTHER -> "ok"

\* fingerprints before it looks at the baseline
CompareRunsTakeAlways == TRUE

\* line 146 is reached only when the baseline was loaded
CompareRunsTake == LoadResult = "ok"

\* Result of compare_with_snapshot
CompareResult(t) ==
  IF LoadResult # "ok" THEN LoadResult ELSE TakeResult(t)

\* the state change of one call of compare_with_snapshot
CompareCall(t) ==
  /\ CompareRunsTake => CanWrite(t)
  /\ result' = CompareResult(t)
  /\ fpRan' = (CompareRunsTake /\ TakeHashed(t))
  /\ snapshot' = IF LoadResult = "ok" THEN FromJson(snapshotFile.data) ELSE <<>>
  /\ current' = IF CompareResult(t) = "ok" THEN t.hashes ELSE <<>>
  /\ drifts' = IF CompareResult(t) = "ok"
               THEN Compare(FromJson(snapshotFile.data), t.hashes)
               ELSE <<>>
  /\ report' = IF CompareResult(t) # "ok" THEN "none"
               ELSE IF Compare(FromJson(snapshotFile.data), t.hashes) = <<>>
               THEN "no_drift"
               ELSE "drift"
  /\ snapshotFile' = IF CompareRunsTake THEN TakeFile(t) ELSE snapshotFile
  /\ snapVer' = IF CompareRunsTake THEN TakeVer(t) ELSE snapVer
  /\ IF CompareRunsTake THEN TakeOutput(t) ELSE NoTakeOutput

----------------------------------------------------------------------------
(* main, lines 50-96, and is_valid_directory *)

\* utils.rs: Path::new(path).is_dir(); the working directory always is one
DirArgs == IF cwdTarget THEN {TRUE} ELSE BOOLEAN

monitorVars ==
  <<monPc, last_check, chan, closed, chanErrs, cmpCount, cmpDone, burst>>

\* what main prints for the Err it returns
ErrorShown(res) == IF res = "ok" THEN "none" ELSE res

\* the locals of compare_with_snapshot are gone
NoLocals ==
  /\ snapshot' = <<>>
  /\ current' = <<>>
  /\ drifts' = <<>>
  /\ report' = "none"

\* a step that is no call of the tool
NoCall ==
  /\ result' = "none"
  /\ stderr' = "none"
  /\ fpRan' = FALSE
  /\ dirArg' = "none"
  /\ NoTakeOutput
  /\ NoLocals

\* never refuses a directory
DirCheckSkipped(valid) == FALSE

\* lines 64, 76, 84: if !is_valid_directory(dir)
DirCheckFails(valid) == ~valid

DirArgOf(valid) == IF valid THEN "valid" ELSE "invalid"

\* main returns Err("Provided path is not a valid directory.")
InvalidDirectory(cmd) ==
  /\ result' = "invalid_directory"
  /\ stderr' = "invalid_directory"
  /\ driftLog' = LogContent(cmd, FALSE)
  /\ fpRan' = FALSE
  /\ dirArg' = "invalid"
  /\ NoTakeOutput
  /\ NoLocals
  /\ UNCHANGED <<snapshotFile, snapVer>>

\* snapshot [DIRECTORY]
Snapshot ==
  /\ lastOp' = "snapshot"
  /\ \E valid \in DirArgs :
       IF ~DirCheckFails(valid)
       THEN \E t \in Takes(LogContent("snapshot", TRUE)) :
              /\ CanWrite(t)
              /\ driftLog' = LogContent("snapshot", TRUE)
              /\ result' = TakeResult(t)
              /\ stderr' = ErrorShown(TakeResult(t))
              /\ fpRan' = TakeHashed(t)
              /\ dirArg' = DirArgOf(valid)
              /\ snapshotFile' = TakeFile(t)
              /\ snapVer' = TakeVer(t)
              /\ TakeOutput(t)
              /\ NoLocals
       ELSE InvalidDirectory("snapshot")
  /\ UNCHANGED <<files, cwdTarget, now, writer>>
  /\ UNCHANGED monitorVars

\* compare [DIRECTORY]
CompareCmd ==
  /\ lastOp' = "compare"
  /\ \E valid \in DirArgs :
       IF ~DirCheckFails(valid)
       THEN \E t \in Takes(LogContent("compare", TRUE)) :
              /\ CompareCall(t)
              /\ dirArg' = DirArgOf(valid)
              /\ stderr' = ErrorShown(CompareResult(t))
              /\ driftLog' = IF CompareResult(t) = "ok"
                             THEN LogAppend(LogContent("compare", TRUE))
                             ELSE LogContent("compare", TRUE)
       ELSE InvalidDirectory("compare")
  /\ UNCHANGED <<files, cwdTarget, now, writer>>
  /\ UNCHANGED monitorVars

----------------------------------------------------------------------------
(* The environment: the user's edits of the directory and of snapshot.json *)

EditFile ==
  \E n \in UserPaths, k \in Kinds :
    /\ k # files[n]
    /\ files' = [files EXCEPT ![n] = k]
    /\ lastOp' = "env"
    /\ NoCall
    /\ UNCHANGED <<cwdTarget, driftLog, snapshotFile, snapVer, now, writer>>
    /\ UNCHANGED monitorVars

\* snapshot.json is removed, or damaged so that it no longer parses
EditBaseline ==
  \E st \in {"missing", "corrupt"} :
    /\ snapshotFile.st # st
    /\ cwdTarget /\ st = "corrupt" => snapVer < MaxVer
    /\ snapshotFile' = [st |-> st, data |-> <<>>]
    /\ snapVer' = IF cwdTarget /\ st = "corrupt" THEN snapVer + 1 ELSE snapVer
    /\ lastOp' = "env"
    /\ NoCall
    /\ UNCHANGED <<files, cwdTarget, driftLog, now, writer>>
    /\ UNCHANGED monitorVars

----------------------------------------------------------------------------
(* The one-shot commands *)

NoBurst == [n |-> 0, t0 |-> 0, cmps |-> 0, due |-> FALSE]

\* no snapshot command is inside fs::write
NoWriter ==
  [pc |-> "idle", old |-> [st |-> "missing", data |-> <<>>], hashes |-> <<>>]

Init ==
  /\ files \in [UserPaths -> Kinds]
  /\ cwdTarget \in BOOLEAN
  /\ driftLog = 0
  /\ snapshotFile = [st |-> "missing", data |-> <<>>]
  /\ snapVer = 0
  /\ lastOp = "init"
  /\ result = "none"
  /\ stderr = "none"
  /\ snapshot = <<>>
  /\ current = <<>>
  /\ drifts = <<>>
  /\ report = "none"
  /\ fpRan = FALSE
  /\ dirArg = "none"
  /\ warnings = 0
  /\ emptyWarned = FALSE
  /\ writer = NoWriter
  /\ monPc = "off"
  /\ last_check = 0
  /\ chan = <<>>
  /\ closed = FALSE
  /\ now = 0
  /\ chanErrs = 0
  /\ cmpCount = 0
  /\ cmpDone = -1
  /\ burst = NoBurst

Next == Snapshot \/ CompareCmd \/ EditFile \/ EditBaseline

Spec == Init /\ [][Next]_vars

----------------------------------------------------------------------------
(* monitor_directory, lines 185-208 *)

diskVars == <<files, cwdTarget, snapshotFile, snapVer, writer>>

\* no debounce at all
DebounceElapsedAlways(lc, t) == TRUE

\* lets an event through a second early
DebounceElapsedShort(lc, t) == t - lc >= DEBOUNCE_INTERVAL - 1

\* line 198: last_check.elapsed() >= DEBOUNCE_INTERVAL, at time t
DebounceElapsed(lc, t) == t - lc >= DEBOUNCE_INTERVAL

\* leaves last_check as it was
LastCheckKept(lc, t) == lc

\* line 201: last_check = Instant::now(), at time t
LastCheckAfter(lc, t) == t

\* starts as if a comparison had run an interval ago
InitialLastCheckPast(t) == t - DEBOUNCE_INTERVAL

\* line 192: let mut last_check = Instant::now(), at time t
InitialLastCheck(t) == t

\* reads the clock when the notification is received
CycleEndAtReceipt(t, d) == t

\* the clock at line 201, after a cycle of d seconds entered at time t
CycleEnd(t, d) == t + d

\* a watch error ends the loop
AfterWatchErrorExit == "failed"

\* line 204 only prints; the loop goes on
AfterWatchError == "running"

\* line 200: let _ = compare_with_snapshot(..): the Result is dropped
CycleErrorShown(res) == "none"

\* the loop of lines 195-207 has no break and no return
AfterChannelError == "running"

\* monitor [DIRECTORY]: main, then lines 186-192
MonitorStart ==
  /\ monPc = "off"
  /\ lastOp' = "monitor"
  /\ \E valid \in DirArgs, subscribed \in BOOLEAN :
       IF DirCheckFails(valid)
       THEN /\ InvalidDirectory("monitor")
            /\ UNCHANGED monitorVars
       ELSE /\ driftLog' = LogContent("monitor", TRUE)
            /\ result' = IF subscribed THEN "none" ELSE "watch_failed"
            /\ stderr' = IF subscribed THEN "none" ELSE "watch_failed"
            /\ monPc' = IF subscribed THEN "running" ELSE "failed"
            /\ last_check' = InitialLastCheck(now)
            /\ fpRan' = FALSE
            /\ dirArg' = DirArgOf(valid)
            /\ NoTakeOutput
            /\ NoLocals
            /\ UNCHANGED <<snapshotFile, snapVer, chan, closed, chanErrs,
                           cmpCount, cmpDone, burst>>
  /\ UNCHANGED <<files, cwdTarget, now, writer>>

\* the observer of one burst: while it follows no burst it may take the
\* notification received as the first of one; the following ones are
\* counted while they are received within the burst window of the first;
\* cmps counts the comparisons they ran
BurstWindow == DEBOUNCE_INTERVAL - 1

BurstOpen(t) ==
  burst.n \in 1..(BurstSize - 1) /\ t - burst.t0 <= BurstWindow

BurstStep(compared) ==
  IF BurstOpen(now)
  THEN burst' = [burst EXCEPT !.n = @ + 1,
                              !.cmps = IF compared THEN @ + 1 ELSE @]
  ELSE \E mark \in BOOLEAN :
         burst' = IF mark
                  THEN [n |-> 1, t0 |-> now,
                        cmps |-> IF compared THEN 1 ELSE 0,
                        due |-> DebounceElapsed(last_check, now)]
                  ELSE NoBurst

\* the observer forgets a burst that time has ended
BurstAt(t) == IF BurstOpen(t) THEN burst ELSE NoBurst

\* Ok(Ok(event)) with the interval elapsed: lines 199-201.  The cycle takes
\* d seconds; last_check is read from the clock after it.
RecvCompare ==
  /\ monPc = "running"
  /\ chan # <<>>
  /\ Head(chan) = "event"
  /\ DebounceElapsed(last_check, now)
  /\ \E t \in Takes(driftLog), d \in 0..MaxCmpDur :
       /\ now + d <= MaxTime
       /\ CompareCall(t)
       /\ dirArg' = "valid"
       /\ stderr' = CycleErrorShown(CompareResult(t))
       /\ driftLog' = IF CompareResult(t) = "ok" THEN LogAppend(driftLog)
                      ELSE driftLog
       /\ now' = now + d
       /\ last_check' = LastCheckAfter(last_check, CycleEnd(now, d))
       /\ cmpDone' = now + d
  /\ lastOp' = "cycle"
  /\ chan' = Tail(chan)
  /\ cmpCount' = cmpCount + 1
  /\ BurstStep(TRUE)
  /\ UNCHANGED <<files, cwdTarget, writer, monPc, closed, chanErrs>>

\* Ok(Ok(event)) inside the interval: the event is consumed, nothing runs
RecvDrop ==
  /\ monPc = "running"
  /\ chan # <<>>
  /\ Head(chan) = "event"
  /\ ~DebounceElapsed(last_check, now)
  /\ lastOp' = "drop"
  /\ chan' = Tail(chan)
  /\ NoCall
  /\ BurstStep(FALSE)
  /\ UNCHANGED diskVars
  /\ UNCHANGED <<driftLog, now, monPc, last_check, closed, chanErrs, cmpCount,
                 cmpDone>>

\* Ok(Err(e)): line 204
RecvWatchError ==
  /\ monPc = "running"
  /\ chan # <<>>
  /\ Head(chan) = "error"
  /\ lastOp' = "watch_error"
  /\ chan' = Tail(chan)
  /\ monPc' = AfterWatchError
  /\ result' = "none"
  /\ stderr' = "watch_error"
  /\ fpRan' = FALSE
  /\ dirArg' = "none"
  /\ NoTakeOutput
  /\ NoLocals
  /\ UNCHANGED diskVars
  /\ UNCHANGED <<driftLog, now, last_check, closed, chanErrs, cmpCount,
                 cmpDone, burst>>

\* Err(e): line 205; recv fails once the queue is empty and no Sender is left
RecvChannelError ==
  /\ monPc = "running"
  /\ chan = <<>>
  /\ closed
  /\ chanErrs < MaxChanErrs
  /\ lastOp' = "channel_error"
  /\ chanErrs' = chanErrs + 1
  /\ monPc' = AfterChannelError
  /\ result' = "none"
  /\ stderr' = "channel_error"
  /\ fpRan' = FALSE
  /\ dirArg' = "none"
  /\ NoTakeOutput
  /\ NoLocals
  /\ UNCHANGED diskVars
  /\ UNCHANGED <<driftLog, now, last_check, chan, closed, cmpCount, cmpDone,
                 burst>>

----------------------------------------------------------------------------
(* The environment of the monitor: the watcher's thread and the clock *)

\* the watcher sends a change notification or an error of the backend; the
\* tool's own writes into a watched working directory are among the changes
Notify ==
  \E m \in {"event", "error"} :
    /\ monPc = "running"
    /\ ~closed
    /\ Len(chan) < MaxQueue
    /\ chan' = Append(chan, m)
    /\ lastOp' = "env"
    /\ NoCall
    /\ UNCHANGED diskVars
    /\ UNCHANGED <<driftLog, now, monPc, last_check, closed, chanErrs,
                   cmpCount, cmpDone, burst>>

\* the watcher's thread ends and drops its Sender
Close ==
  /\ monPc = "running"
  /\ ~closed
  /\ closed' = TRUE
  /\ lastOp' = "env"
  /\ NoCall
  /\ UNCHANGED diskVars
  /\ UNCHANGED <<driftLog, now, monPc, last_check, chan, chanErrs, cmpCount,
                 cmpDone, burst>>

Tick ==
  /\ monPc = "running"
  /\ now < MaxTime
  /\ now' = now + 1
  /\ burst' = BurstAt(now + 1)
  /\ lastOp' = "env"
  /\ NoCall
  /\ UNCHANGED diskVars
  /\ UNCHANGED <<driftLog, monPc, last_check, chan, closed, chanErrs,
                 cmpCount, cmpDone>>

\* The monitor starts over a directory holding a.txt and b.txt, with no
\* baseline, a damaged one, or the baseline of an earlier state of it.
Scenario == [n \in UserPaths |-> IF n = "a.txt" THEN 1 ELSE 2]

Baselines ==
  {[st |-> "missing", data |-> <<>>],
   [st |-> "corrupt", data |-> <<>>],
   [st |-> "ok", data |-> <<<<"a.txt", Sha256(1)>>, <<"b.txt", Sha256(2)>>>>],
   [st |-> "ok", data |-> <<<<"a.txt", Sha256(2)>>>>]}

InitMon ==
  /\ files = Scenario
  /\ cwdTarget \in BOOLEAN
  /\ driftLog = 0
  /\ snapshotFile \in Baselines
  /\ snapVer = 0
  /\ lastOp = "init"
  /\ result = "none"
  /\ stderr = "none"
  /\ snapshot = <<>>
  /\ current = <<>>
  /\ drifts = <<>>
  /\ report = "none"
  /\ fpRan = FALSE
  /\ dirArg = "none"
  /\ warnings = 0
  /\ emptyWarned = FALSE
  /\ writer = NoWriter
  /\ monPc = "off"
  /\ last_check = 0
  /\ chan = <<>>
  /\ closed = FALSE
  /\ now = 0
  /\ chanErrs = 0
  /\ cmpCount = 0
  /\ cmpDone = -1
  /\ burst = NoBurst

NextMon ==
  \/ MonitorStart
  \/ RecvCompare
  \/ RecvDrop
  \/ RecvWatchError
  \/ RecvChannelError
  \/ Notify
  \/ Close
  \/ Tick
  \/ EditBaseline

SpecMon == InitMon /\ [][NextMon]_vars

----------------------------------------------------------------------------
(* The comparator on its own: the two loops applied to any two collections *)
(* with unique paths of at most MaxLen entries                             *)

CmpPaths == UserPaths \cup {DRIFT_LOG}

Digests == {Sha256(c) : c \in Contents}

UniquePaths(coll) ==
  \A i, j \in 1..Len(coll) : i # j => coll[i].path # coll[j].path

Collections ==
  UNION {{c \in [1..n -> [path : CmpPaths, hash : Digests]] : UniquePaths(c)} :
           n \in 0..MaxLen}

InitCmp ==
  /\ snapshot \in Collections
  /\ current \in Collections
  /\ drifts = <<>>
  /\ report = "none"
  /\ lastOp = "input"
  /\ files = [n \in UserPaths |-> ABSENT]
  /\ cwdTarget = FALSE
  /\ driftLog = 0
  /\ snapshotFile = [st |-> "missing", data |-> <<>>]
  /\ snapVer = 0
  /\ result = "none"
  /\ stderr = "none"
  /\ fpRan = FALSE
  /\ dirArg = "none"
  /\ warnings = 0
  /\ emptyWarned = FALSE
  /\ writer = NoWriter
  /\ monPc = "off"
  /\ last_check = 0
  /\ chan = <<>>
  /\ closed = FALSE
  /\ now = 0
  /\ chanErrs = 0
  /\ cmpCount = 0
  /\ cmpDone = -1
  /\ burst = NoBurst

\* lines 148-166 on the two collections
CmpApply ==
  /\ lastOp = "input"
  /\ drifts' = Compare(snapshot, current)
  /\ lastOp' = "compared"
  /\ UNCHANGED <<files, cwdTarget, driftLog, snapshotFile, snapVer, result,
                 stderr, snapshot, current, report, fpRan, now, dirArg,
                 warnings, emptyWarned, writer>>
  /\ UNCHANGED monitorVars

NextCmp == CmpApply

SpecCmp == InitCmp /\ [][NextCmp]_vars

----------------------------------------------------------------------------
(* Claims about the comparator (under SpecCmp) *)

Compared == lastOp = "compared"

HasPath(coll, p) == \E i \in 1..Len(coll) : coll[i].path = p

HashOf(coll, p) == (CHOOSE e \in {coll[i] : i \in 1..Len(coll)} : e.path = p).hash

PosOf(coll, p) == CHOOSE i \in 1..Len(coll) : coll[i].path = p

RecordsOf(p) == {i \in 1..Len(drifts) : drifts[i].path = p}

ExactlyOne(p, k) ==
  /\ Cardinality(RecordsOf(p)) = 1
  /\ \A i \in RecordsOf(p) : drifts[i].kind = k

\* C8: comparator completeness.  After the comparison of two collections
\* with unique paths, a path on both sides with equal digests has no record,
\* one with unequal digests has exactly one Changed record, a path only in
\* current exactly one New record, a path only in the baseline exactly one
\* Deleted record, and no other path has a record.
C8_Completeness ==
  Compared =>
    /\ \A p \in CmpPaths :
         CASE HasPath(snapshot, p) /\ HasPath(current, p) ->
                IF HashOf(snapshot, p) = HashOf(current, p)
                THEN RecordsOf(p) = {}
                ELSE ExactlyOne(p, "Changed")
           [] ~HasPath(snapshot, p) /\ HasPath(current, p) -> ExactlyOne(p, "New")
           [] HasPath(snapshot, p) /\ ~HasPath(current, p) -> ExactlyOne(p, "Deleted")
           [] OTHER -> RecordsOf(p) = {}
    /\ \A i \in 1..Len(drifts) : drifts[i].path \in CmpPaths

\* a comparison in which all four classes of path occur at once needs three
\* entries a side; here one with a changed, a new and a deleted path
C8_Witness ==
  /\ Compared
  /\ \E p, q, r \in CmpPaths :
       /\ HasPath(snapshot, p) /\ HasPath(current, p)
       /\ HashOf(snapshot, p) # HashOf(current, p)
       /\ ~HasPath(snapshot, q) /\ HasPath(current, q)
       /\ HasPath(snapshot, r) /\ ~HasPath(current, r)
       /\ Len(drifts) = 3

EntrySet(coll) == {coll[i] : i \in 1..Len(coll)}

\* C9: comparing a collection with itself, in whatever order its entries
\* are on either side, yields the empty drift sequence.
C9_SelfCompareEmpty ==
  Compared /\ EntrySet(snapshot) = EntrySet(current) => drifts = <<>>

C9_Witness ==
  /\ Compared
  /\ EntrySet(snapshot) = EntrySet(current)
  /\ Len(snapshot) >= 2
  /\ snapshot # current
  /\ drifts = <<>>

\* C10: the report lists the New and Changed records first, in the order of
\* the current collection, and then the Deleted records, in the order of
\* the baseline.
C10_EmissionOrder ==
  Compared =>
    \E k \in 0..Len(drifts) :
      /\ \A i \in 1..k : drifts[i].kind \in {"New", "Changed"}
      /\ \A i \in (k + 1)..Len(drifts) : drifts[i].kind = "Deleted"
      /\ \A i, j \in 1..k :
           i < j => PosOf(current, drifts[i].path) < PosOf(current, drifts[j].path)
      /\ \A i, j \in (k + 1)..Len(drifts) :
           i < j => PosOf(snapshot, drifts[i].path) < PosOf(snapshot, drifts[j].path)

C10_Witness ==
  /\ Compared
  /\ Len(drifts) >= 3
  /\ drifts[1].kind = "Changed"
  /\ drifts[2].kind = "New"
  /\ drifts[3].kind = "Deleted"

----------------------------------------------------------------------------
(* Claims about the one-shot commands (under Spec) *)

\* C1: the baseline record snapshot.json is modified only by the snapshot
\* operation: a one-shot compare and a comparison cycle of the monitor loop
\* leave it exactly as it was before.
C1_OnlySnapshotWrites ==
  [][lastOp' \in {"compare", "cycle"} => snapshotFile' = snapshotFile]_vars

\* C2: snapshot(D) directly followed by compare(D), with nothing modified
\* by the user in between, reports no drift; D may be the working directory,
\* where the tool keeps snapshot.json and drift.log.
C2_SnapshotThenCompareNoDrift ==
  [][(lastOp = "snapshot" /\ result = "ok" /\ lastOp' = "compare" /\ result' = "ok")
       => report' = "no_drift"]_vars

LoadErrors == {"no_snapshot", "parse_error"}

\* C7: a one-shot compare whose baseline load fails returns an error (for a
\* missing record the "run snapshot first" error), runs no fingerprinting,
\* prints no drift report and leaves snapshot.json as it was.
C7_LoadFailureStopsCompare ==
  [][lastOp' = "compare" /\ snapshotFile.st # "ok" =>
       /\ result' \in LoadErrors \cup {"invalid_directory"}
       /\ result' \in LoadErrors =>
            /\ result' = IF snapshotFile.st = "missing" THEN "no_snapshot"
                         ELSE "parse_error"
            /\ stderr' = result'
       /\ ~fpRan'
       /\ report' = "none"
       /\ snapshotFile' = snapshotFile
       /\ snapVer' = snapVer]_vars

\* a compare has just failed on a damaged record that is still in place
C7_Witness ==
  /\ lastOp = "compare"
  /\ result = "parse_error"
  /\ snapshotFile.st = "corrupt"
  /\ \E n \in UserPaths : files[n] \in Contents

----------------------------------------------------------------------------
(* Claims about the monitor loop (under SpecMon) *)

\* C3: a burst of BurstSize change notifications received within one second
\* runs exactly one comparison, wherever in the life of the loop it occurs.
C3_ExactlyOnePerBurst ==
  burst.n = BurstSize => burst.cmps = 1

\* C3, amended: such a burst runs at most one comparison, and exactly one
\* when its first notification is received at least DEBOUNCE_INTERVAL after
\* the last recorded comparison (after the start of the loop when there was
\* none).
C3_AtMostOnePerBurst ==
  burst.n = BurstSize =>
    /\ burst.cmps <= 1
    /\ burst.due => burst.cmps = 1

\* a burst whose first notification was dropped and a later one compared
C3_Witness ==
  /\ burst.n = BurstSize
  /\ burst.cmps = 1
  /\ ~burst.due

\* C4: the loop starts no comparison less than DEBOUNCE_INTERVAL after the
\* previous one was recorded.
C4_DebounceSpacing ==
  [][lastOp' = "cycle" /\ cmpDone >= 0 => now - cmpDone >= DEBOUNCE_INTERVAL]_vars

\* the loop has just run its second comparison
C4_Witness ==
  /\ lastOp = "cycle"
  /\ cmpCount >= 2

\* C5: once a receive on the closed channel has failed the loop has exited,
\* and it attempts no further receive.
C5_ExitsOnClosedChannel ==
  /\ chanErrs > 0 => monPc # "running"
  /\ chanErrs <= 1

\* C6: a monitor-triggered comparison that fails on a missing or unparseable
\* baseline ends the monitor operation with that error, reported to the
\* operator.
C6_BaselineErrorIsFatal ==
  lastOp = "cycle" /\ result \in LoadErrors =>
    /\ monPc = "failed"
    /\ stderr = result


\* ---- the monitor loop: errors, drops, timestamps ----

\* the step takes a notification of kind k from the channel
Received(k) ==
  /\ chan # <<>>
  /\ Head(chan) = k
  /\ chan' = Tail(chan)

\* C12: a watch error received while the loop waits is reported and nothing
\* else: the loop goes on waiting, no comparison runs, no file is hashed, the
\* baseline and the debounce timestamp stay as they were
C12_WatchErrorIsTransient ==
  [][Received("error") =>
       /\ lastOp' = "watch_error"
       /\ stderr' = "watch_error"
       /\ monPc' = "running"
       /\ cmpCount' = cmpCount
       /\ ~fpRan'
       /\ snapshotFile' = snapshotFile
       /\ last_check' = last_check]_vars

\* a watch error was reported after a comparison, with the loop still up
C12_Witness ==
  /\ lastOp = "watch_error"
  /\ stderr = "watch_error"
  /\ monPc = "running"
  /\ cmpCount >= 1

\* C16: a notification received inside the interval is consumed without a
\* comparison, and a comparison only ever runs in the step that receives a
\* notification once the interval has elapsed: nothing is deferred
C16_DropAndWait ==
  [][/\ (Received("event") /\ now - last_check < DEBOUNCE_INTERVAL) =>
          /\ lastOp' = "drop"
          /\ cmpCount' = cmpCount
          /\ ~fpRan'
          /\ snapshotFile' = snapshotFile
          /\ last_check' = last_check
     /\ cmpCount' # cmpCount =>
          /\ Received("event")
          /\ now - last_check >= DEBOUNCE_INTERVAL]_vars

\* a notification was dropped after a comparison and nothing is left queued
C16_Witness ==
  /\ lastOp = "drop"
  /\ cmpCount >= 1
  /\ chan = <<>>
  /\ now - last_check < DEBOUNCE_INTERVAL

\* C17: every comparison cycle, whatever its result, ends with the debounce
\* timestamp set to the time at which the cycle finished and with the loop
\* still running
C17_TimestampAfterEveryCycle ==
  [][cmpCount' # cmpCount =>
       /\ lastOp' = "cycle"
       /\ last_check' = now'
       /\ cmpDone' = now'
       /\ monPc' = "running"]_vars

\* a failed cycle that took time has just finished
C17_Witness ==
  /\ lastOp = "cycle"
  /\ result \in LoadErrors \cup {"io_error"}
  /\ last_check = now
  /\ cmpCount = 1
  /\ now = DEBOUNCE_INTERVAL + MaxCmpDur
  /\ monPc = "running"

\* C19: the timestamp starts at the monitor's start time: no comparison runs
\* in the first DEBOUNCE_INTERVAL of the monitor and every notification
\* received in that period is dropped
C19_QuietStartup ==
  [][/\ (monPc' = "running" /\ now' < DEBOUNCE_INTERVAL) => cmpCount' = 0
     /\ (Received("event") /\ now < DEBOUNCE_INTERVAL) =>
          /\ lastOp' = "drop"
          /\ cmpCount' = cmpCount]_vars

\* a notification was dropped during the startup period
C19_Witness ==
  /\ lastOp = "drop"
  /\ now < DEBOUNCE_INTERVAL
  /\ cmpCount = 0
  /\ last_check = 0


\* ---- the three sub-commands of main ----

\* the one-shot commands and the start of the monitor on any directory;
\* the user's files stay as they are
NextCli == Snapshot \/ CompareCmd \/ MonitorStart \/ EditBaseline

SpecCli == Init /\ [][NextCli]_vars

\* C14: a command given a DIRECTORY that is no directory fails with the
\* invalid-directory error before anything else happens: no file is hashed,
\* the baseline is not written and no watch is subscribed
C14_InvalidDirectoryStopsEarly ==
  [][dirArg' = "invalid" =>
       /\ result' = "invalid_directory"
       /\ stderr' = "invalid_directory"
       /\ ~fpRan'
       /\ warnings' = 0
       /\ snapshotFile' = snapshotFile
       /\ monPc' = monPc]_vars

\* monitor was refused an invalid directory while a baseline exists
C14_Witness ==
  /\ lastOp = "monitor"
  /\ dirArg = "invalid"
  /\ result = "invalid_directory"
  /\ snapshotFile.st = "ok"
  /\ monPc = "off"


\* ---- what take_snapshot returns and prints ----

\* the readable regular files of the target directory when it is listed
ReadableFiles ==
  {n \in AllPaths : KindOf(n, driftLog') > 0}

\* the entries that cannot be enumerated or cannot be read
FailingEntries ==
  {n \in AllPaths : KindOf(n, driftLog') \in {UNREADABLE, BADENTRY}}

\* the regular files of the target directory, readable or not
RegularFiles ==
  {n \in AllPaths : KindOf(n, driftLog') > 0 \/ KindOf(n, driftLog') = UNREADABLE}

\* the step ran the loop of take_snapshot over the target directory
Fingerprinted == fpRan' /\ lastOp' \in {"snapshot", "compare"}

C15_EmptyWarningIffNoRegularFile ==
  [][Fingerprinted =>
       /\ emptyWarned' = (RegularFiles = {})
       /\ (emptyWarned' /\ result' = "ok") => snapshotFile'.data = <<>>]_vars


\* ---- the baseline after a compare ----

\* C18: after a compare that succeeds the baseline on disk is the collection
\* that compare computed, so that a second compare of the same directory,
\* no file changed in between, reports no drift
C18_SecondCompareNoDrift ==
  [][/\ (lastOp' = "compare" /\ result' = "ok") =>
          FromJson(snapshotFile'.data) = current'
     /\ (/\ lastOp = "compare" /\ result = "ok"
         /\ lastOp' = "compare" /\ result' = "ok") =>
          report' = "no_drift"]_vars


\* ---- a snapshot command running beside a compare command ----

\* fs::write(path, contents) is File::create(path)?.write_all(contents): the
\* file is truncated when it is opened and filled afterwards.  SnapshotBegin
\* is the snapshot command up to the truncation, SnapshotEnd the write_all;
\* another process of the tool can run between the two.
SnapshotBegin ==
  /\ writer.pc = "idle"
  /\ \E t \in Takes(LogContent("snapshot", TRUE)) :
       /\ t.io = "ok"
       /\ CanWrite(t)
       /\ writer' = [pc |-> "writing", old |-> snapshotFile, hashes |-> t.hashes]
       /\ TakeOutput(t)
  /\ lastOp' = "snapshot_begin"
  /\ driftLog' = LogContent("snapshot", TRUE)
  /\ snapshotFile' = [st |-> "corrupt", data |-> <<>>]
  /\ result' = "none"
  /\ stderr' = "none"
  /\ fpRan' = TRUE
  /\ dirArg' = "valid"
  /\ NoLocals
  /\ UNCHANGED <<files, cwdTarget, snapVer, now>>
  /\ UNCHANGED monitorVars

SnapshotEnd ==
  /\ writer.pc = "writing"
  /\ \E written \in BOOLEAN :
       /\ snapshotFile' = IF written
                          THEN [st |-> "ok", data |-> ToJson(writer.hashes)]
                          ELSE [st |-> "corrupt", data |-> <<>>]
       /\ result' = IF written THEN "ok" ELSE "io_error"
       /\ stderr' = IF written THEN "none" ELSE "io_error"
  /\ lastOp' = "snapshot"
  /\ writer' = NoWriter
  /\ fpRan' = FALSE
  /\ dirArg' = "valid"
  /\ NoTakeOutput
  /\ NoLocals
  /\ UNCHANGED <<files, cwdTarget, driftLog, snapVer, now>>
  /\ UNCHANGED monitorVars

\* the target is a directory other than the working directory
InitConc == Init /\ ~cwdTarget

NextConc == SnapshotBegin \/ SnapshotEnd \/ CompareCmd \/ EditFile

SpecConc == InitConc /\ [][NextConc]_vars

\* C11: a compare that runs while a snapshot command is saving over a
\* complete record loads either that old record or the new one, never an
\* empty or partly written one
C11_AtomicOverwrite ==
  [][(/\ lastOp' = "compare"
      /\ dirArg' = "valid"
      /\ writer.pc = "writing"
      /\ writer.old.st = "ok") =>
       /\ result' \notin LoadErrors
       /\ snapshot' \in {FromJson(writer.old.data), writer.hashes}]_vars

====
